---- MODULE Spec2Model ----
(***************************************************************************)
(* Retrieval-and-routing core of the chat backend: the session document    *)
(* registry and vector collection (services/document/document_store.py),   *)
(* the query analysis (services/query_analyzer.py, services/groq_service   *)
(* .py), the chat request handler generate_stream (api/chat.py), and the   *)
(* document chunker (services/document/chunking_service.py).               *)
(*                                                                         *)
(* Spec is the chat handler interleaved with uploads and deletions,        *)
(* LiveSpec adds weak fairness of the handler's steps and IngestSpec       *)
(* leaves the deletions out.  RetrievalSpec, ChunkerSpec, RegistrySpec,    *)
(* UploadSpec (process_upload) and WebSpec (services/tavily_service.py)    *)
(* each run one component on inputs drawn from bounded sets; TwoStoreSpec  *)
(* is the registry as main.py builds it, with two DocumentStore objects.   *)
(*                                                                         *)
(* Rerank scores and thresholds are in tenths: -3.5 is -35, 0.10 is 1.     *)
(* A message is a sequence of tokens; the text is the tokens joined by     *)
(* single spaces.                                                          *)
(***************************************************************************)
EXTENDS Integers, Sequences, FiniteSets, TLC

VARIABLES
    session_documents,  \* DocumentStore.session_documents (in memory)
    session_file,       \* chroma_db/session_documents.pkl (durable)
    collection,         \* chunks held by the Chroma collection
    uploads,            \* number of process_upload calls so far
    req                 \* locals of the request being served

vars == <<session_documents, session_file, collection, uploads, req>>

----------------------------------------------------------------------------
(* Bounds *)

MaxUploads == 1
MaxChunks == 1

(* Program constants *)

RETRIEVAL_TOP_K == 20
RERANKER_FINAL_K == 5
RERANKER_SCORE_THRESHOLD == -35
CHAT_RELEVANCE_THRESHOLD == 1
PREVIEW_MAX_CHUNKS == 8
QUERY_MIN_LENGTH == 2

None == "None"
Sessions == {"s1", "s2"}
\* chat requests carry session s1 or none; uploads and deletions name
\* either session
ChatSessions == {"s1", None}
DocIds == {"d1", "d2", "d3"}
DocIdOf(n) == IF n = 1 THEN "d1" ELSE IF n = 2 THEN "d2" ELSE "d3"

Scores == {-40, -35, -10}
Thresholds == {-35, 1}

Min(a, b) == IF a < b THEN a ELSE b

----------------------------------------------------------------------------
(* Messages *)

Messages ==
    { <<"tax", "rate">>,
      <<"tax", "and", "rate">>,
      <<"tax", "AND", "rate">>,
      <<"tax", "?">>,
      <<"tax", "?", "rate", "?">>,
      <<"Summarize", "tax">>,
      <<"capital of", "tax">>,
      <<"what", "is", "$tax">>,
      <<"?">> }

\* str.lower() on one token
Lower(tok) ==
    IF tok = "AND" THEN "and"
    ELSE IF tok = "Summarize" THEN "summarize"
    ELSE tok

TokLen(tok) == IF tok = "?" THEN 1 ELSE 2

\* QueryAnalyzer._clean_query on one token: characters outside
\* [\w\s\-?.!] are removed
CleanToken(tok) == IF tok = "$tax" THEN "tax" ELSE tok

clean_query(msg) == [i \in 1..Len(msg) |-> CleanToken(msg[i])]

RECURSIVE StrLen(_)
StrLen(msg) ==
    IF msg = <<>> THEN 0
    ELSE IF Len(msg) = 1 THEN TokLen(msg[1])
    ELSE TokLen(Head(msg)) + 1 + StrLen(Tail(msg))

\* " and " in message.lower(): the word with a space on both sides
ContainsAnd(msg) ==
    \E i \in 1..Len(msg) : Lower(msg[i]) = "and" /\ 1 < i /\ i < Len(msg)

\* "?" in message[:-1]: a question mark that is not the last character
QuestionMarkBeforeLast(msg) ==
    \E i \in 1..Len(msg) : msg[i] = "?" /\ i < Len(msg)

\* any(phrase in msg_lower for phrase in SUMMARY_PHRASES)
MatchesSummaryPhrase(msg) ==
    \E i \in 1..Len(msg) : Lower(msg[i]) = "summarize"

\* any(kw in query_lower for kw in general_web_keywords)
MatchesGeneralWebKeyword(msg) ==
    \E i \in 1..Len(msg) : Lower(msg[i]) = "capital of"

\* QueryAnalyzer.is_simple_query: ^what is \w+\?*$
RECURSIVE AllQuestionMarks(_)
AllQuestionMarks(s) ==
    IF s = <<>> THEN TRUE ELSE Head(s) = "?" /\ AllQuestionMarks(Tail(s))

is_simple_query(msg) ==
    /\ Len(msg) >= 3
    /\ Lower(msg[1]) = "what"
    /\ Lower(msg[2]) = "is"
    /\ msg[3] \notin {"?", "capital of", "$tax"}
    /\ AllQuestionMarks(SubSeq(msg, 4, Len(msg)))

is_multi_part_of(n_suggested, msg) ==
    n_suggested > 1 \/ ContainsAnd(msg) \/ QuestionMarkBeforeLast(msg)

----------------------------------------------------------------------------
(* Session registry *)

HasEntry(reg, sid) == sid \in DOMAIN reg

\* the test of has_documents and of evaluate_document_relevance
SessionHasDocs(reg, sid) == HasEntry(reg, sid) /\ Len(reg[sid]) > 0

\* add_document_to_session, before _save_sessions
AppendDocument(reg, sid, doc) ==
    [s \in (DOMAIN reg) \cup {sid} |->
        IF s = sid
        THEN (IF HasEntry(reg, sid) THEN reg[sid] ELSE <<>>) \o <<doc>>
        ELSE reg[s]]

RECURSIVE WithoutDocument(_, _)
WithoutDocument(docs, doc) ==
    IF docs = <<>> THEN <<>>
    ELSE IF Head(docs) = doc THEN WithoutDocument(Tail(docs), doc)
    ELSE <<Head(docs)>> \o WithoutDocument(Tail(docs), doc)

\* delete_document: the list comprehension over the given session only
RemoveDocument(reg, sid, doc) ==
    IF HasEntry(reg, sid)
    THEN [s \in DOMAIN reg |->
            IF s = sid THEN WithoutDocument(reg[s], doc) ELSE reg[s]]
    ELSE reg

----------------------------------------------------------------------------
(* Retrieval: preview and two-stage search *)

ChunksOfSession(coll, sid) == SelectSeq(coll, LAMBDA c : c.session_id = sid)

RECURSIVE InsertByChunkIndex(_, _)
InsertByChunkIndex(s, x) ==
    IF s = <<>> THEN <<x>>
    ELSE IF Head(s).chunk_index <= x.chunk_index
         THEN <<Head(s)>> \o InsertByChunkIndex(Tail(s), x)
         ELSE <<x>> \o s

\* docs.sort(key=chunk_index): stable, ascending
RECURSIVE SortByChunkIndex(_, _)
SortByChunkIndex(acc, rest) ==
    IF rest = <<>> THEN acc
    ELSE SortByChunkIndex(InsertByChunkIndex(acc, Head(rest)), Tail(rest))

\* variant: the chunks are cut in the order the index returns them
get_document_preview_unsorted(coll, sid, max_chunks, index_fails) ==
    IF index_fails THEN <<>>
    ELSE LET docs == ChunksOfSession(coll, sid)
         IN  SubSeq(docs, 1, Min(max_chunks, Len(docs)))

get_document_preview(coll, sid, max_chunks, index_fails) ==
    IF index_fails THEN <<>>
    ELSE LET docs == SortByChunkIndex(<<>>, ChunksOfSession(coll, sid))
         IN  SubSeq(docs, 1, Min(max_chunks, Len(docs)))

\* variant: an unstable sort, equal scores leave in reverse order
RECURSIVE InsertByRerankDesc_unstable(_, _)
InsertByRerankDesc_unstable(s, x) ==
    IF s = <<>> THEN <<x>>
    ELSE IF Head(s).rerank_score > x.rerank_score
         THEN <<Head(s)>> \o InsertByRerankDesc_unstable(Tail(s), x)
         ELSE <<x>> \o s

RECURSIVE InsertByRerankDesc(_, _)
InsertByRerankDesc(s, x) ==
    IF s = <<>> THEN <<x>>
    ELSE IF Head(s).rerank_score >= x.rerank_score
         THEN <<Head(s)>> \o InsertByRerankDesc(Tail(s), x)
         ELSE <<x>> \o s

\* sorted(..., key=rerank score, reverse=True): stable, descending
RECURSIVE SortByRerankDesc(_, _)
SortByRerankDesc(acc, rest) ==
    IF rest = <<>> THEN acc
    ELSE SortByRerankDesc(InsertByRerankDesc(acc, Head(rest)), Tail(rest))

\* the orders in which the index can return the chunks of a session
\* (ascending distance to the query embedding)
Stage1Orders(coll, sid) ==
    LET cs == ChunksOfSession(coll, sid)
        n  == Len(cs)
    IN  { [i \in 1..n |-> cs[p[i]]] :
            p \in { q \in [1..n -> 1..n] :
                       \A i, j \in 1..n : i # j => q[i] # q[j] } }

\* variant: when a collaborator raises, the handler answers with the
\* unranked head of the stage-1 list
search_documents_unranked_on_failure(reg, sid, max_results, stage1, scores, fails) ==
    IF ~HasEntry(reg, sid) THEN <<>>
    ELSE LET n_retrieve == Min(RETRIEVAL_TOP_K, max_results * 4)
             candidates == SubSeq(stage1, 1, Min(n_retrieve, Len(stage1)))
             scored     == [i \in 1..Len(candidates) |->
                              [chunk |-> candidates[i],
                               rerank_score |-> scores[i]]]
             ranked     == SortByRerankDesc(<<>>, scored)
         IN  IF candidates = <<>> THEN <<>>
             ELSE IF fails
             THEN [i \in 1..Min(max_results, Len(candidates)) |->
                     [chunk |-> candidates[i]]]
             ELSE SubSeq(ranked, 1, Min(max_results, Len(ranked)))

\* stage1: the session's chunks by ascending distance; scores: the
\* reranker's score of each stage-1 candidate; fails: the embedder, the
\* index or the reranker raises
search_documents(reg, sid, max_results, stage1, scores, fails) ==
    IF ~HasEntry(reg, sid) THEN <<>>
    ELSE IF fails THEN <<>>
    ELSE LET n_retrieve == Min(RETRIEVAL_TOP_K, max_results * 4)
             candidates == SubSeq(stage1, 1, Min(n_retrieve, Len(stage1)))
             scored     == [i \in 1..Len(candidates) |->
                              [chunk |-> candidates[i],
                               rerank_score |-> scores[i]]]
             ranked     == SortByRerankDesc(<<>>, scored)
         IN  IF candidates = <<>> THEN <<>>
             ELSE SubSeq(ranked, 1, Min(max_results, Len(ranked)))

----------------------------------------------------------------------------
(* Relevance gate and answerability oracle *)

\* variant: the boundary score is rejected
is_relevant_strict(best_rerank_score, relevance_threshold) ==
    best_rerank_score > RERANKER_SCORE_THRESHOLD

\* variant: the caller's argument decides
is_relevant_by_argument(best_rerank_score, relevance_threshold) ==
    best_rerank_score >= relevance_threshold

\* document_store.py:306; the argument relevance_threshold is not read
is_relevant(best_rerank_score, relevance_threshold) ==
    best_rerank_score >= RERANKER_SCORE_THRESHOLD

\* variant: the chunks found are handed on whatever the gate decides
evaluate_document_relevance_keeps_chunks(reg, sid, relevance_threshold, doc_results) ==
    IF ~SessionHasDocs(reg, sid)
    THEN [should_use_documents |-> FALSE,
          reason |-> "No documents found", relevant_chunks |-> <<>>]
    ELSE IF doc_results = <<>>
    THEN [should_use_documents |-> FALSE,
          reason |-> "No relevant chunks found", relevant_chunks |-> <<>>]
    ELSE LET best_rerank_score == doc_results[1].rerank_score
             relevant == is_relevant(best_rerank_score, relevance_threshold)
         IN  [should_use_documents |-> relevant,
              rerank_score |-> best_rerank_score,
              reason |-> IF relevant THEN "relevant_documents"
                         ELSE "low_reranker_score",
              relevant_chunks |-> doc_results]

\* reg is the registry after reload_sessions(); doc_results is what
\* search_documents returns when the session has documents; the result
\* has the key rerank_score only when the search found something
evaluate_document_relevance(reg, sid, relevance_threshold, doc_results) ==
    IF ~SessionHasDocs(reg, sid)
    THEN [should_use_documents |-> FALSE,
          reason |-> "No documents found", relevant_chunks |-> <<>>]
    ELSE IF doc_results = <<>>
    THEN [should_use_documents |-> FALSE,
          reason |-> "No relevant chunks found", relevant_chunks |-> <<>>]
    ELSE LET best_rerank_score == doc_results[1].rerank_score
             relevant == is_relevant(best_rerank_score, relevance_threshold)
         IN  [should_use_documents |-> relevant,
              rerank_score |-> best_rerank_score,
              reason |-> IF relevant THEN "relevant_documents"
                         ELSE "low_reranker_score",
              relevant_chunks |-> IF relevant THEN doc_results ELSE <<>>]

OracleReplies == {"yes", "NO", "error"}

Upper(reply) == IF reply = "yes" THEN "YES" ELSE reply
StartsWithY(reply) == reply = "YES"

\* variant: a failed model call counts as NO
pdf_can_answer_pessimistic(doc_chunks, reply) ==
    IF doc_chunks = <<>> THEN FALSE
    ELSE IF reply = "error" THEN FALSE
    ELSE StartsWithY(Upper(reply))

\* _pdf_can_answer: reply is how the model call ends
pdf_can_answer(doc_chunks, reply) ==
    IF doc_chunks = <<>> THEN FALSE
    ELSE IF reply = "error" THEN TRUE
    ELSE StartsWithY(Upper(reply))

\* variant: the oracle is consulted whatever the gate said
OracleNeeded_always(relevance_eval) == TRUE

\* chat.py:318, the test that guards the oracle call
OracleNeeded(relevance_eval) == relevance_eval.should_use_documents

----------------------------------------------------------------------------
(* Query analysis *)

ValidIntents == {"doc_summary", "doc_qa", "general_web"}
RawIntents == ValidIntents \cup {"chitchat", None}
NSuggested == {1, 3}

\* variant: the model's intent is passed on unchecked
NormaliseIntent_unchecked(raw_intent, has_documents) ==
    IF has_documents THEN raw_intent ELSE None

\* GroqService.analyze_query: validate / normalise query_intent
NormaliseIntent(raw_intent, has_documents) ==
    IF has_documents
    THEN (IF raw_intent \notin ValidIntents THEN "doc_qa" ELSE raw_intent)
    ELSE None

\* GroqService._create_fallback_analysis: heuristic intent
FallbackIntent(query, has_documents) ==
    IF ~has_documents THEN None
    ELSE IF MatchesSummaryPhrase(query) THEN "doc_summary"
    ELSE IF MatchesGeneralWebKeyword(query) THEN "general_web"
    ELSE "doc_qa"

\* variant: only a general_web classification is overridden
HeuristicOverride_web_only(session_has_docs, message, query_intent) ==
    IF session_has_docs /\ MatchesSummaryPhrase(message)
       /\ query_intent = "general_web"
    THEN "doc_summary"
    ELSE query_intent

\* PHASE 1c of generate_stream
HeuristicOverride(session_has_docs, message, query_intent) ==
    IF session_has_docs /\ MatchesSummaryPhrase(message)
    THEN "doc_summary"
    ELSE query_intent

----------------------------------------------------------------------------
(* Routing *)

\* variant: the branches run without the session_has_docs test
DocIntentPath_without_docs_test(session_has_docs, query_intent) ==
    IF query_intent = "doc_summary" THEN "summary"
    ELSE IF query_intent = "general_web" THEN "general_web"
    ELSE "doc_qa"

\* variant: general_web falls through to the doc_qa branch
DocIntentPath_web_as_qa(session_has_docs, query_intent) ==
    IF ~session_has_docs THEN "none"
    ELSE IF query_intent = "doc_summary" THEN "summary"
    ELSE "doc_qa"

\* PHASE 2 of generate_stream: which branch runs
DocIntentPath(session_has_docs, query_intent) ==
    IF ~session_has_docs THEN "none"
    ELSE IF query_intent = "doc_summary" THEN "summary"
    ELSE IF query_intent = "general_web" THEN "general_web"
    ELSE "doc_qa"

\* variant: a multi-part summary request goes hybrid
SearchSourceDecision_summary_hybrid(has_relevant_docs, doc_not_in_doc, query_intent, is_multi_part) ==
    IF has_relevant_docs
    THEN (IF is_multi_part THEN "hybrid" ELSE "documents")
    ELSE IF doc_not_in_doc THEN "not_in_doc"
    ELSE "web"

\* variant: the decision of main.py, which has no not_in_doc source
SearchSourceDecision_legacy(has_relevant_docs, doc_not_in_doc, query_intent, is_multi_part) ==
    IF has_relevant_docs
    THEN (IF query_intent = "doc_summary" THEN "documents"
          ELSE IF is_multi_part THEN "hybrid"
          ELSE "documents")
    ELSE "web"

\* variant: is_multi_part is not consulted
SearchSourceDecision_never_hybrid(has_relevant_docs, doc_not_in_doc, query_intent, is_multi_part) ==
    IF has_relevant_docs THEN "documents"
    ELSE IF doc_not_in_doc THEN "not_in_doc"
    ELSE "web"

\* variant: a summary request is answered from the documents whether or
\* not the preview found chunks
SearchSourceDecision_summary_always(has_relevant_docs, doc_not_in_doc, query_intent, is_multi_part) ==
    IF has_relevant_docs \/ query_intent = "doc_summary"
    THEN (IF query_intent = "doc_summary" THEN "documents"
          ELSE IF is_multi_part THEN "hybrid"
          ELSE "documents")
    ELSE IF doc_not_in_doc THEN "not_in_doc"
    ELSE "web"

\* PHASE 3 of generate_stream
SearchSourceDecision(has_relevant_docs, doc_not_in_doc, query_intent, is_multi_part) ==
    IF has_relevant_docs
    THEN (IF query_intent = "doc_summary" THEN "documents"
          ELSE IF is_multi_part THEN "hybrid"
          ELSE "documents")
    ELSE IF doc_not_in_doc THEN "not_in_doc"
    ELSE "web"

\* variant: no branch for not_in_doc; as in main.py, a source other than
\* documents and web takes the hybrid prompt
PromptFor_legacy(search_source, query_intent) ==
    IF search_source = "documents"
    THEN (IF query_intent = "doc_summary" THEN "summary" ELSE "doc")
    ELSE IF search_source = "web" THEN "web"
    ELSE "hybrid"

\* PHASE 5b of generate_stream: the prompt template
PromptFor(search_source, query_intent) ==
    IF search_source = "documents"
    THEN (IF query_intent = "doc_summary" THEN "summary" ELSE "doc")
    ELSE IF search_source = "not_in_doc" THEN "not_in_doc"
    ELSE IF search_source = "web" THEN "web"
    ELSE "hybrid"

\* variant: the sources of main.py, where only web and hybrid search
NeedsWebSearch_legacy(search_source) ==
    search_source \in {"web", "hybrid"}

\* chat.py:389
NeedsWebSearch(search_source) ==
    search_source \in {"web", "hybrid", "not_in_doc"}

----------------------------------------------------------------------------
(* State *)

EmptyRegistry == [s \in {} |-> <<>>]

\* relevance_eval before the gate has run
NotEvaluated == [reason |-> None]

\* the events of a request that the outer handler of generate_stream ends
\* (chat.py:501-507)
ErrorEvents == << <<"search_error", None>>, <<"end", None>> >>

NoCalls == [has_documents |-> 0, preview |-> 0, gate |-> 0,
            search |-> 0, oracle |-> 0, web_search |-> 0]

IdleReq ==
    [pc |-> "idle", session_id |-> None, message |-> <<>>,
     session_has_docs |-> FALSE,
     analysis_path |-> None, raw_intent |-> None, analysis_intent |-> None,
     query_intent |-> None, is_multi_part |-> FALSE,
     relevance_eval |-> NotEvaluated, threshold_passed |-> None,
     oracle_reply |-> None, pdf_has_answer |-> FALSE,
     retrieval_error |-> FALSE,
     doc_results |-> <<>>, has_relevant_docs |-> FALSE,
     rag_fallback_used |-> FALSE, doc_not_in_doc |-> FALSE,
     search_source |-> None, prompt |-> None, events |-> <<>>,
     calls |-> NoCalls]

Init ==
    /\ session_documents = EmptyRegistry
    /\ session_file = EmptyRegistry
    /\ collection = <<>>
    /\ uploads = 0
    /\ req = IdleReq

----------------------------------------------------------------------------
(* Document upload and deletion (api/documents.py) *)

NewChunks(doc, sid, n) ==
    [i \in 1..n |-> [document_id |-> doc, session_id |-> sid,
                     chunk_index |-> i - 1]]

\* process_upload returns status "failed": validation, extraction, chunking
\* or storing raised, or the chunker returned no chunk
UploadFails ==
    /\ uploads < MaxUploads
    /\ uploads' = uploads + 1
    /\ UNCHANGED <<session_documents, session_file, collection, req>>

\* variant: the document is registered first and store_document_chunks
\* raises after it
UploadCompletes_registers_first(sid, n) ==
    /\ uploads < MaxUploads
    /\ Len(collection) + n <= MaxChunks
    /\ LET doc == DocIdOf(uploads + 1)
           reg == AppendDocument(session_documents, sid, doc)
       IN  /\ session_documents' = reg
           /\ session_file' = reg
    /\ uploads' = uploads + 1
    /\ UNCHANGED <<collection, req>>

\* process_upload: store_document_chunks, then add_document_to_session
\* with its _save_sessions
UploadCompletes(sid, n) ==
    /\ uploads < MaxUploads
    /\ Len(collection) + n <= MaxChunks
    /\ LET doc == DocIdOf(uploads + 1)
           reg == AppendDocument(session_documents, sid, doc)
       IN  /\ collection' = collection \o NewChunks(doc, sid, n)
           /\ session_documents' = reg
           /\ session_file' = reg
    /\ uploads' = uploads + 1
    /\ UNCHANGED req

\* delete_document(document_id, session_id)
DeleteDocument(doc, sid) ==
    /\ collection' = SelectSeq(collection, LAMBDA c : c.document_id # doc)
    /\ IF HasEntry(session_documents, sid)
       THEN LET reg == RemoveDocument(session_documents, sid, doc)
            IN  /\ session_documents' = reg
                /\ session_file' = reg
       ELSE UNCHANGED <<session_documents, session_file>>
    /\ UNCHANGED <<uploads, req>>

----------------------------------------------------------------------------
(* Chat request (api/chat.py, generate_stream) *)

\* the analyses process_query can return for a message
Analyses(message, has_documents) ==
    LET cleaned == clean_query(message)
    IN  IF ~has_documents /\ is_simple_query(cleaned)
        THEN { [path |-> "simple", raw_intent |-> None,
                query_intent |-> None, n_suggested |-> 3] }
        ELSE { [path |-> "llm", raw_intent |-> raw,
                query_intent |-> NormaliseIntent(raw, has_documents),
                n_suggested |-> n] : raw \in RawIntents, n \in NSuggested }
             \cup
             { [path |-> "fallback", raw_intent |-> None,
                query_intent |-> FallbackIntent(cleaned, has_documents),
                n_suggested |-> 3] }

\* PHASE 3 and the search_start event
Decide(r) ==
    LET src == SearchSourceDecision(r.has_relevant_docs, r.doc_not_in_doc,
                                    r.query_intent, r.is_multi_part)
    IN  [r EXCEPT !.pc = "decided", !.search_source = src,
                  !.events = Append(r.events, <<"search_start", src>>)]

\* the request arrives: has_documents reloads the registry; SearchRequest
\* rejects a query shorter than min_length
ChatStart(sid, message) ==
    /\ req.pc = "idle"
    /\ LET reloads == sid # None
           reg == IF reloads THEN session_file ELSE session_documents
           has == reloads /\ SessionHasDocs(reg, sid)
           r0  == [IdleReq EXCEPT !.session_id = sid, !.message = message,
                                  !.session_has_docs = has,
                                  !.calls.has_documents =
                                      IF reloads THEN 1 ELSE 0]
       IN  /\ session_documents' = reg
           /\ req' = IF StrLen(message) < QUERY_MIN_LENGTH
                     THEN [r0 EXCEPT !.pc = "error",
                               !.events = ErrorEvents]
                     ELSE [r0 EXCEPT !.pc = "analysis"]
    /\ UNCHANGED <<session_file, collection, uploads>>

\* process_query raises: the call at query_analyzer.py:39 passes history=,
\* a keyword the signature at groq_service.py:21 does not declare; the
\* outer handler of generate_stream emits search_error and end
AnalysisRaises ==
    /\ req.pc = "analysis"
    /\ ~(~req.session_has_docs /\ is_simple_query(clean_query(req.message)))
    /\ req' = [req EXCEPT !.pc = "error",
                          !.events = ErrorEvents]
    /\ UNCHANGED <<session_documents, session_file, collection, uploads>>

\* process_query returns analysis a; then PHASE 1c and PHASE 2 run up to
\* the call of _pdf_can_answer or, without one, through PHASE 3;
\* index_fails: the embedder, the index or the reranker raises in the
\* retrieval call of this request
AnalysisReturns(a, index_fails, stage1, scores) ==
    /\ req.pc = "analysis"
    /\ a \in Analyses(req.message, req.session_has_docs)
    /\ LET sid  == req.session_id
           qi   == HeuristicOverride(req.session_has_docs, req.message,
                                     a.query_intent)
           r1   == [req EXCEPT !.analysis_path = a.path,
                               !.raw_intent = a.raw_intent,
                               !.analysis_intent = a.query_intent,
                               !.query_intent = qi,
                               !.is_multi_part =
                                   is_multi_part_of(a.n_suggested, req.message)]
           path == DocIntentPath(req.session_has_docs, qi)
       IN  IF path = "summary"
           THEN LET preview_chunks ==
                        get_document_preview(collection, sid,
                                             PREVIEW_MAX_CHUNKS, index_fails)
                    r2 == [r1 EXCEPT !.calls.preview = 1,
                               !.retrieval_error = index_fails,
                               !.doc_results = preview_chunks,
                               !.has_relevant_docs = (preview_chunks # <<>>),
                               !.rag_fallback_used = (preview_chunks = <<>>)]
                IN  /\ req' = Decide(r2)
                    /\ UNCHANGED session_documents
           ELSE IF path = "doc_qa"
           THEN LET reg  == session_file
                    found == search_documents(reg, sid, RERANKER_FINAL_K,
                                              stage1, scores, index_fails)
                    ev   == evaluate_document_relevance(
                                reg, sid, CHAT_RELEVANCE_THRESHOLD, found)
                    r2   == [r1 EXCEPT !.calls.gate = 1,
                               !.calls.search =
                                   IF SessionHasDocs(reg, sid) THEN 1 ELSE 0,
                               !.retrieval_error =
                                   (index_fails /\ SessionHasDocs(reg, sid)),
                               !.threshold_passed = CHAT_RELEVANCE_THRESHOLD,
                               !.relevance_eval = ev]
                IN  /\ session_documents' = reg
                    /\ req' = IF OracleNeeded(ev)
                              THEN [r2 EXCEPT !.pc = "oracle",
                                              !.calls.oracle = @ + 1]
                              ELSE Decide([r2 EXCEPT !.doc_not_in_doc = TRUE])
           ELSE /\ req' = Decide(r1)
                /\ UNCHANGED session_documents
    /\ UNCHANGED <<session_file, collection, uploads>>

\* _pdf_can_answer returns; then the rest of PHASE 2 and PHASE 3
OracleReturns(reply) ==
    /\ req.pc = "oracle"
    /\ LET chunks == req.relevance_eval.relevant_chunks
           pdf_has_answer == pdf_can_answer(chunks, reply)
           r1 == [req EXCEPT !.oracle_reply = reply,
                             !.pdf_has_answer = pdf_has_answer]
       IN  req' = IF pdf_has_answer
                  THEN Decide([r1 EXCEPT !.has_relevant_docs = TRUE,
                                         !.doc_results = chunks])
                  ELSE Decide([r1 EXCEPT !.doc_not_in_doc = TRUE])
    /\ UNCHANGED <<session_documents, session_file, collection, uploads>>

\* PHASE 4: the web search when the source needs one
Execute ==
    /\ req.pc = "decided"
    /\ req' = [req EXCEPT
                 !.pc = "searched",
                 !.calls.web_search =
                     IF NeedsWebSearch(req.search_source) THEN 1 ELSE 0]
    /\ UNCHANGED <<session_documents, session_file, collection, uploads>>

\* PHASE 5 to the end event: prompt selection and generation; a failure of
\* the generation is caught (chat.py:490-492) and the stream goes on
Generate ==
    /\ req.pc = "searched"
    /\ req' = [req EXCEPT
                 !.pc = "done",
                 !.prompt = PromptFor(req.search_source, req.query_intent),
                 !.events = Append(req.events, <<"end", None>>)]
    /\ UNCHANGED <<session_documents, session_file, collection, uploads>>

\* the stream is closed; the next request can be served
ChatEnd ==
    /\ req.pc \in {"done", "error"}
    /\ req' = IdleReq
    /\ UNCHANGED <<session_documents, session_file, collection, uploads>>

----------------------------------------------------------------------------

UploadedDocs == { DocIdOf(i) : i \in 1..uploads }

Next ==
    \/ UploadFails
    \/ \E sid \in Sessions, n \in 1..MaxChunks : UploadCompletes(sid, n)
    \/ \E doc \in UploadedDocs, sid \in Sessions : DeleteDocument(doc, sid)
    \/ \E sid \in ChatSessions, message \in Messages :
          ChatStart(sid, message)
    \/ AnalysisRaises
    \/ \E a \in Analyses(req.message, req.session_has_docs),
          index_fails \in BOOLEAN,
          stage1 \in Stage1Orders(collection, req.session_id) :
          \E scores \in [1..Len(stage1) -> Scores] :
             AnalysisReturns(a, index_fails, stage1, scores)
    \/ \E reply \in OracleReplies : OracleReturns(reply)
    \/ Execute
    \/ Generate
    \/ ChatEnd

Spec == Init /\ [][Next]_vars

----------------------------------------------------------------------------
(* Properties of the routing decision *)

Sources == {"documents", "web", "hybrid", "not_in_doc"}

Decided == req.pc \in {"decided", "searched", "done"}
Analysed == req.pc \in {"oracle", "decided", "searched", "done"}
GateRan == req.relevance_eval.reason # None
SearchFound ==
    req.relevance_eval.reason \in {"relevant_documents", "low_reranker_score"}
DocQaIntent == req.query_intent \notin {"doc_summary", "general_web"}

\* C1: a request whose session has no documents is routed to web with
\* rag_fallback_used and doc_not_in_doc false, whatever the intent, the
\* multiplicity and the content of the registry and the collection by then.
C1_NoDocsRoutesToWeb ==
    (Decided /\ ~req.session_has_docs) =>
        /\ req.search_source = "web"
        /\ ~req.rag_fallback_used
        /\ ~req.doc_not_in_doc

\* a multi-part request that saw no documents is decided while the session
\* has got a document, with chunks, in the meantime
C1_Witness ==
    /\ Decided /\ ~req.session_has_docs /\ req.is_multi_part
    /\ req.session_id = "s1" /\ req.raw_intent = "doc_qa"
    /\ SessionHasDocs(session_file, "s1")
    /\ ChunksOfSession(collection, "s1") # <<>>

\* C2: with documents and intent doc_summary the source is documents when
\* the preview is non-empty, also for a multi-part query, and web with
\* rag_fallback_used when it is empty; never hybrid or not_in_doc, and
\* doc_not_in_doc stays false.
C2_SummaryRouting ==
    (Decided /\ req.session_has_docs /\ req.query_intent = "doc_summary") =>
        /\ req.calls.preview = 1
        /\ req.doc_results # <<>> =>
              req.search_source = "documents" /\ ~req.rag_fallback_used
        /\ req.doc_results = <<>> =>
              req.search_source = "web" /\ req.rag_fallback_used
        /\ req.search_source \notin {"hybrid", "not_in_doc"}
        /\ ~req.doc_not_in_doc

C2_Witness ==
    /\ Decided /\ req.session_has_docs /\ req.query_intent = "doc_summary"
    /\ req.is_multi_part /\ req.doc_results # <<>>
    /\ req.search_source = "documents"

\* C3: with documents and intent general_web the source is web with both
\* flags false, and the request calls neither the two-stage search, the
\* preview, the relevance gate nor the oracle.
C3_GeneralWebSkipsRetrieval ==
    (Analysed /\ req.session_has_docs /\ req.query_intent = "general_web") =>
        /\ req.calls.search = 0 /\ req.calls.preview = 0
        /\ req.calls.gate = 0 /\ req.calls.oracle = 0
        /\ Decided
        /\ req.search_source = "web"
        /\ ~req.rag_fallback_used /\ ~req.doc_not_in_doc

C3_Witness ==
    /\ Decided /\ req.session_has_docs /\ req.query_intent = "general_web"
    /\ ChunksOfSession(collection, req.session_id) # <<>>
    /\ req.search_source = "web"

\* C4: with documents and an intent that is neither doc_summary nor
\* general_web, a gate that does not pass (a best rerank score below the
\* threshold, a gate result of should_use_documents false, or an oracle
\* that answers NO after the primary signal passed) gives not_in_doc with
\* doc_not_in_doc true and rag_fallback_used false, multi-part or not.
C4_GateFailsNotInDoc ==
    ( /\ Decided /\ req.session_has_docs /\ DocQaIntent
      /\ \/ SearchFound /\ req.relevance_eval.rerank_score
                               < RERANKER_SCORE_THRESHOLD
         \/ GateRan /\ ~req.relevance_eval.should_use_documents
         \/ GateRan /\ req.relevance_eval.should_use_documents
                    /\ req.oracle_reply = "NO" ) =>
        /\ req.search_source = "not_in_doc"
        /\ req.doc_not_in_doc
        /\ ~req.rag_fallback_used

C4_Witness ==
    /\ Decided /\ req.session_has_docs /\ DocQaIntent /\ req.is_multi_part
    /\ req.relevance_eval.should_use_documents /\ req.oracle_reply = "NO"
    /\ req.search_source = "not_in_doc"

\* C5: with documents and an intent that is neither doc_summary nor
\* general_web, when the primary signal passes and the oracle answers yes
\* the source is hybrid for a multi-part query and documents otherwise,
\* with both flags false.
C5_GatePassesRouting ==
    ( /\ Decided /\ req.session_has_docs /\ DocQaIntent
      /\ GateRan /\ req.relevance_eval.should_use_documents
      /\ req.oracle_reply = "yes" ) =>
        /\ req.search_source =
              (IF req.is_multi_part THEN "hybrid" ELSE "documents")
        /\ ~req.rag_fallback_used /\ ~req.doc_not_in_doc

C5_Witness ==
    /\ Decided /\ req.session_has_docs /\ req.query_intent = "doc_qa"
    /\ req.oracle_reply = "yes" /\ req.is_multi_part
    /\ req.search_source = "hybrid"

\* the decision table: first matching row wins; an intent other than
\* doc_summary and general_web takes the doc_qa rows
TableDecision(has_docs, intent, multi, preview_found, primary, oracle) ==
    IF ~has_docs THEN <<"web", FALSE, FALSE>>
    ELSE IF intent = "doc_summary"
    THEN (IF preview_found THEN <<"documents", FALSE, FALSE>>
          ELSE <<"web", TRUE, FALSE>>)
    ELSE IF intent = "general_web" THEN <<"web", FALSE, FALSE>>
    ELSE IF ~(primary /\ oracle) THEN <<"not_in_doc", FALSE, TRUE>>
    ELSE IF multi THEN <<"hybrid", FALSE, FALSE>>
    ELSE <<"documents", FALSE, FALSE>>

\* C6: the decision is a total function of (session_has_docs, intent,
\* is_multi_part, preview / gate / oracle outcome) with values in the four
\* sources, and an intent of the model that is absent or outside the three
\* intents is analysed as doc_qa and decided as doc_qa, not rejected.
C6_RoutingIsTotalFunction ==
    /\ Decided =>
          /\ req.search_source \in Sources
          /\ <<req.search_source, req.rag_fallback_used, req.doc_not_in_doc>>
                = TableDecision(req.session_has_docs, req.query_intent,
                                req.is_multi_part,
                                req.calls.preview = 1 /\ req.doc_results # <<>>,
                                GateRan /\ req.relevance_eval.should_use_documents,
                                req.pdf_has_answer)
    /\ (Analysed /\ req.session_has_docs /\ req.analysis_path = "llm"
           /\ req.raw_intent \notin ValidIntents) =>
          /\ req.analysis_intent = "doc_qa"
          /\ req.query_intent \in {"doc_qa", "doc_summary"}
          /\ req.query_intent = "doc_qa" => req.calls.gate = 1

C6_Witness ==
    /\ Decided /\ req.session_has_docs /\ req.analysis_path = "llm"
    /\ req.raw_intent = "chitchat" /\ req.query_intent = "doc_qa"
    /\ req.search_source = "hybrid"

\* C7: the gate's boundary is inclusive: a non-empty search whose best
\* rerank score equals the threshold gives should_use_documents true, and
\* it is false only for a best score strictly below the threshold.
C7_GateBoundaryInclusive ==
    SearchFound =>
        /\ req.relevance_eval.rerank_score = RERANKER_SCORE_THRESHOLD =>
              req.relevance_eval.should_use_documents
        /\ ~req.relevance_eval.should_use_documents =>
              req.relevance_eval.rerank_score < RERANKER_SCORE_THRESHOLD

C7_Witness ==
    /\ SearchFound
    /\ req.relevance_eval.rerank_score = RERANKER_SCORE_THRESHOLD
    /\ req.relevance_eval.should_use_documents
    /\ req.relevance_eval.relevant_chunks # <<>>

\* C8 as stated: should_use_documents is true exactly when the search is
\* non-empty and its best rerank score is at least the threshold the
\* caller passed.
C8_GateUsesPassedThreshold ==
    GateRan =>
        ( req.relevance_eval.should_use_documents <=>
            ( SearchFound /\
              req.relevance_eval.rerank_score >= req.threshold_passed ) )

\* C8 amended: should_use_documents is true exactly when the search is
\* non-empty and its best rerank score is at least
\* RERANKER_SCORE_THRESHOLD, whatever threshold the caller passes.
C8_GateUsesModuleThreshold ==
    GateRan =>
        /\ req.relevance_eval.should_use_documents <=>
              ( SearchFound /\
                req.relevance_eval.rerank_score >= RERANKER_SCORE_THRESHOLD )
        /\ SearchFound =>
              \A t \in Thresholds :
                 is_relevant(req.relevance_eval.rerank_score, t)
                    = req.relevance_eval.should_use_documents

\* the chat handler passed 0.10 and a best score of -1.0 was accepted
C8_Witness ==
    /\ SearchFound
    /\ req.threshold_passed = CHAT_RELEVANCE_THRESHOLD
    /\ req.relevance_eval.rerank_score < req.threshold_passed
    /\ req.relevance_eval.should_use_documents

\* C9: the oracle is called at most once in a request and only after the
\* primary signal passed; after an empty search or a best score below the
\* threshold should_use_documents is false and the oracle is not called.
C9_OracleOnlyAfterPrimary ==
    /\ req.calls.oracle <= 1
    /\ (req.calls.oracle > 0 \/ req.pc = "oracle" \/ req.oracle_reply # None) =>
          /\ SearchFound
          /\ req.relevance_eval.should_use_documents
          /\ req.relevance_eval.rerank_score >= RERANKER_SCORE_THRESHOLD
    /\ ( GateRan /\ ( ~SearchFound \/ req.relevance_eval.rerank_score
                                         < RERANKER_SCORE_THRESHOLD ) ) =>
          /\ ~req.relevance_eval.should_use_documents
          /\ req.calls.oracle = 0
          /\ req.oracle_reply = None

C9_Witness ==
    /\ Decided /\ SearchFound /\ req.calls.search = 1
    /\ req.relevance_eval.rerank_score < RERANKER_SCORE_THRESHOLD
    /\ req.calls.oracle = 0

\* C10: when the primary signal passed and the oracle call fails, the
\* oracle result is true: the source is hybrid for a multi-part query and
\* documents otherwise, never not_in_doc, and the request does not end in
\* search_error.
C10_OracleFailureIsOptimistic ==
    req.oracle_reply = "error" =>
        /\ req.pc # "error"
        /\ req.pdf_has_answer
        /\ Decided
        /\ req.search_source =
              (IF req.is_multi_part THEN "hybrid" ELSE "documents")
        /\ ~req.doc_not_in_doc
        /\ req.doc_results # <<>>
        /\ \A i \in 1..Len(req.events) : req.events[i][1] # "search_error"

C10_Witness ==
    /\ req.pc = "done" /\ req.oracle_reply = "error"
    /\ ~req.is_multi_part /\ req.search_source = "documents"
    /\ req.prompt = "doc"

----------------------------------------------------------------------------
(* Retrieval on its own: one call of search_documents or of               *)
(* get_document_preview on a stored collection                             *)

MaxStored == 5

\* max_results of a search, max_chunks of a preview
SearchSizes == {1, 2}
PreviewSizes == {0, 1, 3}

\* the collaborator whose call raises
FailurePoints == {"embedder", "index", "reranker"}

NoRetrievalCalls == [embedder |-> 0, index |-> 0, reranker |-> 0]

\* session s1 holds documents d1 and d2, session s2 holds d3; the chunks
\* lie in the collection in the order in which the uploads stored them
\* (d1, then d3, then d2)
StoredCollection(k1, k2, k3) ==
    NewChunks("d1", "s1", k1) \o NewChunks("d3", "s2", k3)
        \o NewChunks("d2", "s1", k2)

\* the registry after the uploads that stored StoredCollection(k1, k2, k3)
StoredRegistry(k1, k2, k3) ==
    LET r1 == IF k1 > 0 THEN AppendDocument(EmptyRegistry, "s1", "d1")
              ELSE EmptyRegistry
        r2 == IF k3 > 0 THEN AppendDocument(r1, "s2", "d3") ELSE r1
    IN  IF k2 > 0 THEN AppendDocument(r2, "s1", "d2") ELSE r2

RetrievalInit ==
    /\ \E k1 \in 0..MaxStored, k2 \in 0..1 :
          /\ k1 + k2 <= MaxStored
          /\ collection = StoredCollection(k1, k2, k2)
          /\ session_documents = StoredRegistry(k1, k2, k2)
          /\ session_file = StoredRegistry(k1, k2, k2)
    /\ uploads = 0
    /\ req = [pc |-> "idle"]

\* the stage-1 candidates of a search: collection.query returns n_results
\* chunks of the session at most
Stage1Candidates(stage1, max_results) ==
    SubSeq(stage1, 1, Min(Min(RETRIEVAL_TOP_K, max_results * 4), Len(stage1)))

\* search_documents(query, sid, max_results) returns normally
SearchCall(sid, max_results, stage1, scores) ==
    /\ req.pc = "idle"
    /\ LET ran == HasEntry(session_documents, sid)
           candidates == Stage1Candidates(stage1, max_results)
       IN  req' = [pc |-> "returned", op |-> "search_documents",
                   session_id |-> sid, size |-> max_results,
                   stage1 |-> stage1, scores |-> scores,
                   failure |-> None,
                   result |-> search_documents(session_documents, sid,
                                 max_results, stage1, scores, FALSE),
                   calls |-> [embedder |-> IF ran THEN 1 ELSE 0,
                              index |-> IF ran THEN 1 ELSE 0,
                              reranker |-> IF ran /\ candidates # <<>>
                                           THEN 1 ELSE 0]]
    /\ UNCHANGED <<session_documents, session_file, collection, uploads>>

\* search_documents(query, sid, max_results) when the call of the embedder,
\* of the index or of the reranker raises; the reranker is called only for
\* a non-empty candidate list
SearchCallFails(sid, max_results, stage1, point) ==
    /\ req.pc = "idle"
    /\ HasEntry(session_documents, sid)
    /\ point = "reranker" => Stage1Candidates(stage1, max_results) # <<>>
    /\ req' = [pc |-> "returned", op |-> "search_documents",
               session_id |-> sid, size |-> max_results,
               stage1 |-> stage1, scores |-> <<>>,
               failure |-> point,
               result |-> search_documents(session_documents, sid,
                             max_results, stage1, <<>>, TRUE),
               calls |-> [embedder |-> 1,
                          index |-> IF point = "embedder" THEN 0 ELSE 1,
                          reranker |-> IF point = "reranker" THEN 1 ELSE 0]]
    /\ UNCHANGED <<session_documents, session_file, collection, uploads>>

\* get_document_preview(sid, max_chunks); index_fails: collection.get raises
PreviewCall(sid, max_chunks, index_fails) ==
    /\ req.pc = "idle"
    /\ req' = [pc |-> "returned", op |-> "get_document_preview",
               session_id |-> sid, size |-> max_chunks,
               stage1 |-> <<>>, scores |-> <<>>,
               failure |-> IF index_fails THEN "index" ELSE None,
               result |-> get_document_preview(collection, sid, max_chunks,
                                               index_fails),
               calls |-> [NoRetrievalCalls EXCEPT !.index = 1]]
    /\ UNCHANGED <<session_documents, session_file, collection, uploads>>

RetrievalNext ==
    \/ /\ req.pc = "idle"
       /\ \E sid \in Sessions, max_results \in SearchSizes :
             \E stage1 \in Stage1Orders(collection, sid) :
                \E scores \in [1..Len(Stage1Candidates(stage1, max_results))
                                  -> Scores] :
                   SearchCall(sid, max_results, stage1, scores)
    \/ /\ req.pc = "idle"
       /\ \E sid \in Sessions, max_results \in SearchSizes,
             point \in FailurePoints :
             \E stage1 \in Stage1Orders(collection, sid) :
                SearchCallFails(sid, max_results, stage1, point)
    \/ \E sid \in Sessions, max_chunks \in PreviewSizes,
          index_fails \in BOOLEAN :
          PreviewCall(sid, max_chunks, index_fails)

RetrievalSpec == RetrievalInit /\ [][RetrievalNext]_vars

----------------------------------------------------------------------------
(* Properties of retrieval *)

Returned(op) == req.pc = "returned" /\ req.op = op

\* a search whose stage 1 and stage 2 ran to the end
SearchRan ==
    /\ Returned("search_documents")
    /\ req.failure = None
    /\ HasEntry(session_documents, req.session_id)

\* the place of a chunk in a list of distinct chunks
PosIn(seq, x) == CHOOSE i \in 1..Len(seq) : seq[i] = x

\* candidate i leaves the sort before candidate j
RanksBefore(scores, i, j) ==
    scores[i] > scores[j] \/ (scores[i] = scores[j] /\ i < j)

\* C11: the result of a search is the first max_results stage-1 candidates
\* in the order of descending rerank score, equal scores in stage-1 order:
\* every element is a candidate with its own score, elements are ranked,
\* no candidate left out ranks before a returned one, rerank_score does
\* not increase along the result, and the length is
\* min(max_results, number of candidates), at most
\* min(max_results, min(RETRIEVAL_TOP_K, 4 * max_results)).
C11_SearchIsStableTopK ==
    SearchRan =>
        LET cand == Stage1Candidates(req.stage1, req.size)
            res  == req.result
            n    == Len(res)
        IN  /\ n = Min(req.size, Len(cand))
            /\ n <= Min(req.size, Min(RETRIEVAL_TOP_K, 4 * req.size))
            /\ \A i \in 1..n : \E k \in 1..Len(cand) : res[i].chunk = cand[k]
            /\ LET pos == [i \in 1..n |-> PosIn(cand, res[i].chunk)]
               IN  /\ \A i \in 1..n :
                         res[i].rerank_score = req.scores[pos[i]]
                   /\ \A i, j \in 1..n :
                         i < j => RanksBefore(req.scores, pos[i], pos[j])
                   /\ \A k \in 1..Len(cand) :
                         (\A i \in 1..n : pos[i] # k) =>
                            \A i \in 1..n : RanksBefore(req.scores, pos[i], k)
            /\ \A i \in 1..(n - 1) :
                  res[i].rerank_score >= res[i + 1].rerank_score

\* two of four candidates returned; the best score is shared by three
\* candidates, of which the one latest in stage-1 order is left out, and
\* the first stage-1 candidate is not returned
C11_Witness ==
    /\ SearchRan /\ req.size = 2 /\ Len(req.result) = 2
    /\ Len(req.stage1) = 4
    /\ req.scores = <<-40, -10, -10, -10>>
    /\ req.result[1].chunk = req.stage1[2]
    /\ req.result[2].chunk = req.stage1[3]

\* C12: a search in which the embedder, the index or the reranker raises
\* returns the empty sequence to its caller and leaves the registry, its
\* file and the collection as they were.
C12_SearchFailureReturnsEmpty ==
    [][ ( /\ req'.pc = "returned"
          /\ req'.op = "search_documents"
          /\ req'.failure # None ) =>
            /\ req'.result = <<>>
            /\ UNCHANGED <<session_documents, session_file, collection>>
      ]_vars

\* the reranker raised on a list of several candidates
C12_Witness ==
    /\ Returned("search_documents") /\ req.failure = "reranker"
    /\ Len(Stage1Candidates(req.stage1, req.size)) >= 2
    /\ req.calls.reranker = 1
    /\ req.result = <<>>

\* C13: a preview returns at most max_chunks chunks, each stored under the
\* session, without repetition, in non-decreasing chunk_index order, and no
\* chunk of the session that it leaves out has a smaller chunk_index than
\* one it returns; without a failure it returns min(max_chunks, number of
\* chunks of the session) chunks; it calls neither the embedder nor the
\* reranker; when the index raises it returns the empty sequence.
C13_PreviewIsReadingOrderPrefix ==
    Returned("get_document_preview") =>
        LET res == req.result
            n   == Len(res)
            all == ChunksOfSession(collection, req.session_id)
        IN  /\ n <= req.size
            /\ \A i \in 1..n :
                  /\ res[i].session_id = req.session_id
                  /\ \E k \in 1..Len(all) : all[k] = res[i]
            /\ \A i, j \in 1..n :
                  i < j => /\ res[i] # res[j]
                           /\ res[i].chunk_index <= res[j].chunk_index
            /\ \A k \in 1..Len(all) :
                  (\A i \in 1..n : res[i] # all[k]) =>
                     \A i \in 1..n : res[i].chunk_index <= all[k].chunk_index
            /\ req.failure = None => n = Min(req.size, Len(all))
            /\ req.failure = "index" => res = <<>>
            /\ req.calls.embedder = 0 /\ req.calls.reranker = 0

\* three chunks of a session with two documents: the first chunk of the
\* second document comes before the second chunk of the first
C13_Witness ==
    /\ Returned("get_document_preview") /\ req.failure = None
    /\ req.size = 3 /\ Len(req.result) = 3
    /\ Len(ChunksOfSession(collection, req.session_id)) > 3
    /\ req.result[2].document_id = "d2" /\ req.result[2].chunk_index = 0
    /\ req.result[3].document_id = "d1" /\ req.result[3].chunk_index = 1

----------------------------------------------------------------------------
(* Document chunking (services/document/chunking_service.py) and the       *)
(* upload pipeline around it (services/document/document_processor.py).    *)
(*                                                                         *)
(* Token counts are in units of 50 tokens. A paragraph is the sequence of  *)
(* the token counts of its sentences, the pieces that the split on         *)
(* (?<=[.!?])\s+ yields; every paragraph ends in ., ! or ?, so that the    *)
(* sentences of a chunk's text are the sentences of its paragraphs. The    *)
(* token count of a text is the sum over its sentences: the separators     *)
(* count for nothing.                                                      *)

MaxParagraphs == 2

max_chunk_tokens == 20
overlap_tokens == 4
min_chunk_tokens == 3

\* the paragraphs of the inputs, as the token counts of their sentences:
\* 100, 950 and 1050 tokens
ParagraphTexts ==
    { <<2>>, <<19>>, <<21>>,
      <<2, 2>>, <<2, 19>>, <<19, 2>>, <<19, 19>>, <<2, 21>> }

Pages == {1, 2}

\* the sentences of paragraph p of the input, each with its place
SentencesOf(page_paragraphs, p) ==
    [j \in 1..Len(page_paragraphs[p].sentences) |->
        [para |-> p, sent |-> j,
         tokens |-> page_paragraphs[p].sentences[j]]]

RECURSIVE count_tokens(_)
count_tokens(content) ==
    IF content = <<>> THEN 0
    ELSE Head(content).tokens + count_tokens(Tail(content))

\* _overlap_text: how many sentences, taken from the end, fit in
\* overlap_tokens; taken is the number taken so far
RECURSIVE OverlapLen(_, _, _)
OverlapLen(content, taken, tokens) ==
    IF taken = Len(content) THEN taken
    ELSE LET sent == content[Len(content) - taken]
         IN  IF tokens + sent.tokens > overlap_tokens THEN taken
             ELSE OverlapLen(content, taken + 1, tokens + sent.tokens)

overlap_text(content) ==
    SubSeq(content, Len(content) - OverlapLen(content, 0, 0) + 1,
           Len(content))

\* _make_chunk; overlap is the number of leading sentences that were
\* copied from the chunk before (DocumentChunk has no such field)
make_chunk(content, page_number, index, overlap) ==
    [chunk_index |-> index, page_number |-> page_number,
     content |-> content, token_count |-> count_tokens(content),
     overlap |-> overlap]

\* _split_long_paragraph: the loop over the sentences and the final yield
RECURSIVE split_long_paragraph(_, _, _, _, _)
split_long_paragraph(sentences, out, current, current_tokens, overlap) ==
    IF sentences = <<>>
    THEN IF count_tokens(current) >= min_chunk_tokens
         THEN Append(out, [content |-> current, overlap |-> overlap])
         ELSE out
    ELSE LET sent == Head(sentences)
         IN  IF current_tokens + sent.tokens > max_chunk_tokens
                /\ current # <<>>
             THEN LET tail == overlap_text(current)
                      seeded == Append(tail, sent)
                  IN  split_long_paragraph(
                          Tail(sentences),
                          Append(out, [content |-> current,
                                       overlap |-> overlap]),
                          seeded, count_tokens(seeded), Len(tail))
             ELSE split_long_paragraph(
                      Tail(sentences), out, Append(current, sent),
                      current_tokens + sent.tokens, overlap)

\* chunk_document, lines 76-77: one chunk per piece of the paragraph
RECURSIVE AppendSubChunks(_, _, _)
AppendSubChunks(all_chunks, sub_chunks, page_num) ==
    IF sub_chunks = <<>> THEN all_chunks
    ELSE AppendSubChunks(
             Append(all_chunks,
                    make_chunk(Head(sub_chunks).content, page_num,
                               Len(all_chunks), Head(sub_chunks).overlap)),
             Tail(sub_chunks), page_num)

\* chunk_document before the loop
ChunkerStart ==
    [all_chunks |-> <<>>, current_content |-> <<>>, current_tokens |-> 0,
     current_page |-> 1, overlap |-> 0]

\* chunk_document: one turn of the loop, for paragraph p
ChunkParagraph(st, page_paragraphs, p) ==
    LET page_num    == page_paragraphs[p].page
        para        == SentencesOf(page_paragraphs, p)
        para_tokens == count_tokens(para)
        s1          == [st EXCEPT !.current_page = page_num]
        closed      == Append(s1.all_chunks,
                              make_chunk(s1.current_content, s1.current_page,
                                         Len(s1.all_chunks), s1.overlap))
        accumulated == [s1 EXCEPT !.current_content = @ \o para,
                                  !.current_tokens = @ + para_tokens]
    IN  IF para_tokens > max_chunk_tokens
        THEN LET flushed == IF s1.current_content # <<>> THEN closed
                            ELSE s1.all_chunks
                 pieces  == split_long_paragraph(para, <<>>, <<>>, 0, 0)
             IN  [s1 EXCEPT
                    !.all_chunks = AppendSubChunks(flushed, pieces, page_num),
                    !.current_content = <<>>,
                    !.current_tokens =
                        IF s1.current_content # <<>> THEN 0 ELSE @,
                    !.overlap = 0]
        ELSE IF s1.current_tokens + para_tokens > max_chunk_tokens
        THEN IF s1.current_tokens >= min_chunk_tokens
             THEN LET tail   == overlap_text(s1.current_content)
                      seeded == tail \o para
                  IN  [s1 EXCEPT !.all_chunks = closed,
                                 !.current_content = seeded,
                                 !.current_tokens = count_tokens(seeded),
                                 !.overlap = Len(tail)]
             ELSE accumulated
        ELSE accumulated

RECURSIVE ChunkParagraphs(_, _, _)
ChunkParagraphs(st, page_paragraphs, p) ==
    IF p > Len(page_paragraphs) THEN st
    ELSE ChunkParagraphs(ChunkParagraph(st, page_paragraphs, p),
                         page_paragraphs, p + 1)

\* chunk_document: the loop, then the flush of the remaining content
chunk_document(page_paragraphs) ==
    LET st == ChunkParagraphs(ChunkerStart, page_paragraphs, 1)
    IN  IF st.current_tokens >= min_chunk_tokens
        THEN Append(st.all_chunks,
                    make_chunk(st.current_content, st.current_page,
                               Len(st.all_chunks), st.overlap))
        ELSE st.all_chunks

\* the paragraphs _extract_paragraphs_with_pages can return: none is empty,
\* and the pages do not decrease
Paragraphs == [page : Pages, sentences : ParagraphTexts]

PageParagraphs ==
    { pp \in UNION { [1..n -> Paragraphs] : n \in 0..MaxParagraphs } :
         \A i \in 1..(Len(pp) - 1) : pp[i].page <= pp[i + 1].page }

\* process_upload has extracted the text of an upload for session s1
ChunkerInit ==
    /\ session_documents = EmptyRegistry
    /\ session_file = EmptyRegistry
    /\ collection = <<>>
    /\ uploads = 0
    /\ \E pp \in PageParagraphs :
          req = [pc |-> "extracted", session_id |-> "s1",
                 page_paragraphs |-> pp, chunks |-> <<>>]

\* process_upload, step 3
ChunkDocument ==
    /\ req.pc = "extracted"
    /\ req' = [req EXCEPT !.pc = "chunked",
                          !.chunks = chunk_document(req.page_paragraphs)]
    /\ UNCHANGED <<session_documents, session_file, collection, uploads>>

\* variant: the test for an empty chunk list is missing and the document
\* is registered without chunks
UploadWithoutChunks_registers ==
    /\ req.pc = "chunked"
    /\ req.chunks = <<>>
    /\ LET reg == AppendDocument(session_documents, req.session_id,
                                 DocIdOf(uploads + 1))
       IN  /\ session_documents' = reg
           /\ session_file' = reg
    /\ req' = [req EXCEPT !.pc = "completed"]
    /\ uploads' = uploads + 1
    /\ UNCHANGED collection

\* process_upload, line 46: no chunk, the upload ends with status failed
UploadWithoutChunks ==
    /\ req.pc = "chunked"
    /\ req.chunks = <<>>
    /\ req' = [req EXCEPT !.pc = "failed"]
    /\ uploads' = uploads + 1
    /\ UNCHANGED <<session_documents, session_file, collection>>

\* process_upload, steps 4 and 5: the chunks are stored and the document
\* is registered
UploadWithChunks ==
    /\ req.pc = "chunked"
    /\ req.chunks # <<>>
    /\ LET doc == DocIdOf(uploads + 1)
           reg == AppendDocument(session_documents, req.session_id, doc)
       IN  /\ collection' = collection
                   \o NewChunks(doc, req.session_id, Len(req.chunks))
           /\ session_documents' = reg
           /\ session_file' = reg
    /\ req' = [req EXCEPT !.pc = "completed"]
    /\ uploads' = uploads + 1

ChunkerNext ==
    \/ ChunkDocument
    \/ UploadWithoutChunks
    \/ UploadWithChunks

ChunkerSpec == ChunkerInit /\ [][ChunkerNext]_vars

----------------------------------------------------------------------------
(* Properties of chunking *)

Chunked == req.pc \in {"chunked", "completed", "failed"}

\* all sentences of the input from paragraph p on, in reading order
RECURSIVE AllSentences(_, _)
AllSentences(page_paragraphs, p) ==
    IF p > Len(page_paragraphs) THEN <<>>
    ELSE SentencesOf(page_paragraphs, p)
            \o AllSentences(page_paragraphs, p + 1)

\* the chunks from chunk i on, each without its overlap prefix, joined
RECURSIVE WithoutOverlaps(_, _)
WithoutOverlaps(chunks, i) ==
    IF i > Len(chunks) THEN <<>>
    ELSE SubSeq(chunks[i].content, chunks[i].overlap + 1,
                Len(chunks[i].content))
            \o WithoutOverlaps(chunks, i + 1)

\* C14: every chunk has token_count <= max_chunk_tokens, except a chunk
\* that holds a sentence which alone exceeds max_chunk_tokens; this
\* includes the chunks that kept accumulating below min_chunk_tokens and
\* the chunks seeded with an overlap tail.
C14_ChunksWithinTokenLimit ==
    Chunked =>
        \A i \in 1..Len(req.chunks) :
            \/ req.chunks[i].token_count <= max_chunk_tokens
            \/ \E k \in 1..Len(req.chunks[i].content) :
                  req.chunks[i].content[k].tokens > max_chunk_tokens

\* C15: the chunks in chunk_index order, each without its overlap prefix,
\* joined, are the sentences of the input paragraphs in reading order:
\* none missing, none twice, none out of place, the trailing paragraphs
\* and the last sentences of an oversized paragraph included.
C15_ChunksReconstructInput ==
    Chunked =>
        WithoutOverlaps(req.chunks, 1) = AllSentences(req.page_paragraphs, 1)

\* C16: chunk_index counts 0, 1, 2, ... in emission order, and the
\* page_number of a chunk is the page of the first paragraph that
\* contributes to it (the paragraph of its first sentence or, for a chunk
\* seeded with an overlap tail, of its first sentence after the tail).
C16_ChunkPageIsFirstParagraphPage ==
    Chunked =>
        \A i \in 1..Len(req.chunks) :
            LET c == req.chunks[i]
            IN  /\ c.chunk_index = i - 1
                /\ \/ c.page_number =
                         req.page_paragraphs[c.content[1].para].page
                   \/ c.page_number =
                         req.page_paragraphs[c.content[c.overlap + 1].para].page

\* C17: a document with at least one paragraph gets at least one chunk,
\* exactly one when it has fewer than min_chunk_tokens tokens in total, and
\* its upload does not fail for lack of chunks.
C17_ShortDocumentGetsOneChunk ==
    (Chunked /\ Len(req.page_paragraphs) >= 1) =>
        /\ req.chunks # <<>>
        /\ req.pc # "failed"
        /\ count_tokens(AllSentences(req.page_paragraphs, 1))
              < min_chunk_tokens => Len(req.chunks) = 1

----------------------------------------------------------------------------
(* The session registry and its file, with the outcomes of the file I/O:   *)
(* _save_sessions and _load_sessions catch every exception                 *)

MaxRegistered == 2

\* saved: the pickle is written; not_written: makedirs or open raises and
\* the file is as before; truncated: open has emptied the file and dump
\* raises, what is left does not load
SaveOutcomes == {"saved", "not_written", "truncated"}

\* loaded: the pickle is read; failed: open or pickle.load raises
LoadOutcomes == {"loaded", "failed"}

\* _save_sessions: the content of the file afterwards, as the registry
\* that a successful load of it gives
save_sessions(reg, file, outcome) ==
    IF outcome = "saved" THEN reg
    ELSE IF outcome = "not_written" THEN file
    ELSE EmptyRegistry

\* _load_sessions
load_sessions(file, outcome) ==
    IF outcome = "loaded" THEN file ELSE EmptyRegistry

IdleCall ==
    [pc |-> "idle", op |-> None, session_id |-> None, document_id |-> None,
     outcome |-> None]

RegistryInit ==
    /\ session_documents = EmptyRegistry
    /\ session_file = EmptyRegistry
    /\ collection = <<>>
    /\ uploads = 0
    /\ req = IdleCall

\* process_upload, steps 4 and 5, on the shared store: the chunks are
\* stored, then add_document_to_session appends and calls _save_sessions
AddDocumentToSession(sid, saved) ==
    /\ uploads < MaxRegistered
    /\ LET doc == DocIdOf(uploads + 1)
           reg == AppendDocument(session_documents, sid, doc)
       IN  /\ collection' = collection \o NewChunks(doc, sid, 1)
           /\ session_documents' = reg
           /\ session_file' = save_sessions(reg, session_file, saved)
           /\ req' = [pc |-> "returned", op |-> "add_document_to_session",
                      session_id |-> sid, document_id |-> doc,
                      outcome |-> saved]
    /\ uploads' = uploads + 1

\* has_documents(sid): reload_sessions, then the test
HasDocuments(sid, loaded) ==
    /\ session_documents' = load_sessions(session_file, loaded)
    /\ req' = [pc |-> "returned", op |-> "has_documents",
               session_id |-> sid, document_id |-> None,
               outcome |-> loaded]
    /\ UNCHANGED <<session_file, collection, uploads>>

\* evaluate_document_relevance(query, sid), lines 272-285: reload_sessions
\* before the test for documents
EvaluateReloads(sid, loaded) ==
    /\ session_documents' = load_sessions(session_file, loaded)
    /\ req' = [pc |-> "returned", op |-> "evaluate_document_relevance",
               session_id |-> sid, document_id |-> None,
               outcome |-> loaded]
    /\ UNCHANGED <<session_file, collection, uploads>>

\* delete_document(doc, sid) on the shared store; _save_sessions is called
\* only when the session has an entry
DeleteFromRegistry(doc, sid, saved) ==
    /\ collection' = SelectSeq(collection, LAMBDA c : c.document_id # doc)
    /\ IF HasEntry(session_documents, sid)
       THEN LET reg == RemoveDocument(session_documents, sid, doc)
            IN  /\ session_documents' = reg
                /\ session_file' = save_sessions(reg, session_file, saved)
       ELSE /\ saved = "saved"
            /\ UNCHANGED <<session_documents, session_file>>
    /\ req' = [pc |-> "returned", op |-> "delete_document",
               session_id |-> sid, document_id |-> doc, outcome |-> saved]
    /\ UNCHANGED uploads

RegistryNext ==
    \/ \E sid \in Sessions, saved \in SaveOutcomes :
          AddDocumentToSession(sid, saved)
    \/ \E sid \in Sessions, loaded \in LoadOutcomes :
          HasDocuments(sid, loaded)
    \/ \E sid \in Sessions, loaded \in LoadOutcomes :
          EvaluateReloads(sid, loaded)
    \/ \E doc \in UploadedDocs, sid \in Sessions, saved \in SaveOutcomes :
          DeleteFromRegistry(doc, sid, saved)

RegistrySpec == RegistryInit /\ [][RegistryNext]_vars

----------------------------------------------------------------------------
(* Properties of the registry *)

IsPrefix(s, t) == Len(s) <= Len(t) /\ SubSeq(t, 1, Len(s)) = s

\* C18: when add_document_to_session returns, the file holds the registry
\* that is in memory, with the new document as the last entry of its
\* session, so that a reload gives the registry back unchanged; the same
\* for the registry mutation of delete_document.
C18_RegistryMutationIsDurable ==
    /\ Returned("add_document_to_session") =>
          /\ HasEntry(session_documents, req.session_id)
          /\ Len(session_documents[req.session_id]) > 0
          /\ session_documents[req.session_id]
                [Len(session_documents[req.session_id])] = req.document_id
          /\ session_file = session_documents
          /\ load_sessions(session_file, "loaded") = session_documents
    /\ (Returned("delete_document")
           /\ HasEntry(session_documents, req.session_id)) =>
          session_file = session_documents

\* C19: with one shared store, the documents registered for a session stay
\* in its entry, in upload order, through every upload, has_documents call
\* and evaluate_document_relevance call; a document leaves the entry only
\* in a delete_document call for that document.
C19_RegisteredDocumentStays ==
    [][ \A s \in Sessions :
          HasEntry(session_documents, s) =>
             /\ HasEntry(session_documents', s)
             /\ IF req'.op = "delete_document"
                THEN session_documents'[s] \in
                        { session_documents[s],
                          WithoutDocument(session_documents[s],
                                          req'.document_id) }
                ELSE IsPrefix(session_documents[s], session_documents'[s])
      ]_vars

----------------------------------------------------------------------------
(* One upload through process_upload, step by step                         *)
(* (services/document/document_processor.py), on a store that may hold a   *)
(* document already                                                        *)

\* the steps of process_upload that can raise
UploadFailures == {"validation", "extraction", "chunking", "storing"}

\* the request POST /documents/upload has arrived; document d1 may be
\* registered for session s1
UploadInit ==
    /\ \E k \in 0..1 :
          /\ collection = StoredCollection(k, 0, 0)
          /\ session_documents = StoredRegistry(k, 0, 0)
          /\ session_file = StoredRegistry(k, 0, 0)
          /\ uploads = k
    /\ \E sid \in Sessions :
          req = [pc |-> "received", session_id |-> sid,
                 page_paragraphs |-> <<>>, chunks |-> <<>>,
                 failure |-> None]

\* process_upload, steps 1 and 2 return: the file is saved and its text
\* extracted
ExtractContent(page_paragraphs) ==
    /\ req.pc = "received"
    /\ req' = [req EXCEPT !.pc = "extracted",
                          !.page_paragraphs = page_paragraphs]
    /\ UNCHANGED <<session_documents, session_file, collection, uploads>>

\* process_upload, lines 90-101: a step raises and the handler returns
\* status failed; store_document_chunks raises before or in collection.add
UploadRaises(point) ==
    /\ \/ point \in {"validation", "extraction"} /\ req.pc = "received"
       \/ point = "chunking" /\ req.pc = "extracted"
       \/ point = "storing" /\ req.pc = "chunked" /\ req.chunks # <<>>
    /\ req' = [req EXCEPT !.pc = "failed", !.failure = point]
    /\ uploads' = uploads + 1
    /\ UNCHANGED <<session_documents, session_file, collection>>

UploadNext ==
    \/ \E page_paragraphs \in PageParagraphs : ExtractContent(page_paragraphs)
    \/ \E point \in UploadFailures : UploadRaises(point)
    \/ ChunkDocument
    \/ UploadWithoutChunks
    \/ UploadWithChunks

UploadSpec == UploadInit /\ [][UploadNext]_vars

----------------------------------------------------------------------------
(* Properties of the upload *)

\* C21: when validation, extraction or chunking raises, or the chunker
\* returns no chunk, process_upload ends with status failed, and the
\* registry in memory and its file are as before, so that has_documents
\* answers as before for every session; the registry changes in no step of
\* an upload other than the one that completes it.
C21_FailedUploadLeavesRegistry ==
    [][ /\ ( \/ /\ req.failure = None
                /\ req'.failure \in {"validation", "extraction", "chunking"}
             \/ req.pc = "chunked" /\ req.chunks = <<>> ) =>
               /\ req'.pc = "failed"
               /\ UNCHANGED <<session_documents, session_file>>
               /\ \A s \in Sessions :
                     SessionHasDocs(load_sessions(session_file', "loaded"), s)
                        = SessionHasDocs(load_sessions(session_file, "loaded"), s)
        /\ req'.pc # "completed" =>
               UNCHANGED <<session_documents, session_file>>
      ]_vars

\* an upload for session s2 whose text gave no chunk has failed, while
\* session s1 keeps its document
C21_Witness ==
    /\ req.pc = "failed" /\ req.failure = None
    /\ req.page_paragraphs # <<>> /\ req.chunks = <<>>
    /\ req.session_id = "s2"
    /\ session_file = StoredRegistry(1, 0, 0)
    /\ session_documents = session_file

----------------------------------------------------------------------------
(* Web fan-out: TavilyService.search_multiple (services/tavily_service.py) *)
(* runs one _single_search per search term under asyncio.gather and merges *)
(* what the sub-searches return                                            *)

MaxTerms == 2

\* max_results_per_search: 3 or 5 in the program, 2 here
results_per_search == 2

\* the url of a result; "" is a result without url
Urls == {"", "u1", "u2"}

\* the composite score that _rank gives a result
WebScores == {1, 2}

SubSearchResults ==
    UNION { [1..n -> [url : Urls, score : WebScores]] : n \in 0..results_per_search }

\* how the task of one term ends: ok, _single_search returns the response;
\* handled, it catches an HTTP error or a timeout and returns no results;
\* raised, an exception leaves it, which gather hands back as the result
SubSearches ==
    [status : {"ok"}, results : SubSearchResults]
        \cup [status : {"handled", "raised"}, results : {<<>>}]

Pending == [status |-> "pending", results |-> <<>>]

\* search_multiple, lines 59-65: the results of the sub-searches joined in
\* term order, each result with the term and the place it came from
RECURSIVE all_results(_, _)
all_results(search_results, i) ==
    IF i > Len(search_results) THEN <<>>
    ELSE LET result == search_results[i]
         IN  (IF result.status = "raised" THEN <<>>
              ELSE [k \in 1..Len(result.results) |->
                      [url |-> result.results[k].url,
                       score |-> result.results[k].score,
                       term |-> i, pos |-> k]])
                 \o all_results(search_results, i + 1)

\* variant: a result without url is kept
RECURSIVE deduplicate_keeps_no_url(_, _, _)
deduplicate_keeps_no_url(results, seen, unique) ==
    IF results = <<>> THEN unique
    ELSE LET r == Head(results)
         IN  IF r.url \notin seen
             THEN deduplicate_keeps_no_url(Tail(results), seen \cup {r.url},
                                           Append(unique, r))
             ELSE deduplicate_keeps_no_url(Tail(results), seen, unique)

\* _deduplicate
RECURSIVE deduplicate(_, _, _)
deduplicate(results, seen, unique) ==
    IF results = <<>> THEN unique
    ELSE LET r == Head(results)
         IN  IF r.url # "" /\ r.url \notin seen
             THEN deduplicate(Tail(results), seen \cup {r.url},
                              Append(unique, r))
             ELSE deduplicate(Tail(results), seen, unique)

RECURSIVE InsertByScoreDesc(_, _)
InsertByScoreDesc(s, x) ==
    IF s = <<>> THEN <<x>>
    ELSE IF Head(s).score >= x.score
         THEN <<Head(s)>> \o InsertByScoreDesc(Tail(s), x)
         ELSE <<x>> \o s

\* _rank: sorted(results, key=score, reverse=True)
RECURSIVE rank(_, _)
rank(acc, rest) ==
    IF rest = <<>> THEN acc
    ELSE rank(InsertByScoreDesc(acc, Head(rest)), Tail(rest))

\* search_multiple after gather has returned
search_multiple(search_results) ==
    rank(<<>>, deduplicate(all_results(search_results, 1), {}, <<>>))

\* search_multiple has created one task per search term
WebInit ==
    /\ session_documents = EmptyRegistry
    /\ session_file = EmptyRegistry
    /\ collection = <<>>
    /\ uploads = 0
    /\ \E n \in 1..MaxTerms :
          req = [pc |-> "gathering",
                 search_results |-> [i \in 1..n |-> Pending],
                 result |-> <<>>]

\* the task of term i ends; the other tasks go on
SubSearchEnds(i, outcome) ==
    /\ req.pc = "gathering"
    /\ i \in 1..Len(req.search_results)
    /\ req.search_results[i] = Pending
    /\ req' = [req EXCEPT !.search_results[i] = outcome]
    /\ UNCHANGED <<session_documents, session_file, collection, uploads>>

\* gather returns when every task has ended; search_multiple merges,
\* deduplicates, ranks and returns
SearchMultipleReturns ==
    /\ req.pc = "gathering"
    /\ \A i \in 1..Len(req.search_results) : req.search_results[i] # Pending
    /\ req' = [req EXCEPT !.pc = "returned",
                          !.result = search_multiple(req.search_results)]
    /\ UNCHANGED <<session_documents, session_file, collection, uploads>>

WebNext ==
    \/ /\ req.pc = "gathering"
       /\ \E i \in 1..MaxTerms, outcome \in SubSearches :
             SubSearchEnds(i, outcome)
    \/ SearchMultipleReturns

WebSpec == WebInit /\ [][WebNext]_vars

----------------------------------------------------------------------------
(* Properties of the web fan-out *)

\* the results that the succeeded sub-searches returned
SucceededResults ==
    { [url |-> req.search_results[i].results[k].url,
       score |-> req.search_results[i].results[k].score,
       term |-> i, pos |-> k] :
         <<i, k>> \in { p \in (1..MaxTerms + 1) \X (1..results_per_search) :
                          /\ p[1] <= Len(req.search_results)
                          /\ req.search_results[p[1]].status = "ok"
                          /\ p[2] <= Len(req.search_results[p[1]].results) } }

\* result a comes before result b in term order
ComesBefore(a, b) ==
    a.term < b.term \/ (a.term = b.term /\ a.pos <= b.pos)

\* C22: search_multiple returns after every sub-search has ended, failed
\* or not, and what it returns holds one result for every url, other than
\* the empty one, that a succeeded sub-search returned, namely the first
\* with that url in term order; no two results share a url, and every
\* result comes from a succeeded sub-search.
C22_FanOutMergesSucceeded ==
    req.pc = "returned" =>
        LET res == req.result
        IN  /\ \A i \in 1..Len(req.search_results) :
                  req.search_results[i] # Pending
            /\ \A i \in 1..Len(res) :
                  /\ res[i] \in SucceededResults
                  /\ res[i].url # ""
                  /\ \A e \in SucceededResults :
                        e.url = res[i].url => ComesBefore(res[i], e)
            /\ \A i, j \in 1..Len(res) : i # j => res[i].url # res[j].url
            /\ \A e \in SucceededResults :
                  e.url # "" => \E i \in 1..Len(res) : res[i].url = e.url

\* the first sub-search raised; the second returned two results with one
\* url, of which the first is kept although the second scores higher
C22_Witness ==
    /\ req.pc = "returned" /\ Len(req.search_results) = 2
    /\ req.search_results[1].status = "raised"
    /\ req.search_results[2].results =
          << [url |-> "u1", score |-> 1], [url |-> "u1", score |-> 2] >>
    /\ req.result = << [url |-> "u1", score |-> 1, term |-> 2, pos |-> 1] >>

----------------------------------------------------------------------------
(* Properties of the chat request after the routing decision *)

\* C23: a request runs its web search after the routing decision and
\* before the generation, and it runs one exactly when the source is web,
\* hybrid or not_in_doc, never for documents; a request decided as
\* not_in_doc always runs one and generates from the prompt that says the
\* uploaded document lacks the answer.
C23_NotInDocSearchesWeb ==
    /\ req.calls.web_search <= 1
    /\ req.pc \notin {"searched", "done"} =>
          req.calls.web_search = 0 /\ req.prompt = None
    /\ req.pc \in {"searched", "done"} =>
          /\ req.calls.web_search = 1 <=>
                req.search_source \in {"web", "hybrid", "not_in_doc"}
          /\ req.search_source = "documents" => req.calls.web_search = 0
    /\ req.pc = "searched" => req.prompt = None
    /\ (req.pc = "done" /\ req.search_source = "not_in_doc") =>
          /\ req.calls.web_search = 1
          /\ req.prompt = "not_in_doc"

\* the oracle answered NO; the request searched the web and generated
\* from the not_in_doc prompt
C23_Witness ==
    /\ req.pc = "done" /\ req.search_source = "not_in_doc"
    /\ req.oracle_reply = "NO" /\ req.doc_not_in_doc
    /\ req.calls.web_search = 1 /\ req.prompt = "not_in_doc"

\* the chat handler with its awaits completing: the oracle call returns,
\* the web search returns, the generation ends
LiveSpec ==
    /\ Spec
    /\ WF_vars(\E reply \in OracleReplies : OracleReturns(reply))
    /\ WF_vars(Execute)
    /\ WF_vars(Generate)

EndEvents(events) ==
    { i \in 1..Len(events) : events[i][1] = "end" }

\* what holds in every state of a request for C24
RetrievalFailureDegrades ==
    /\ Analysed =>
          \A i \in 1..Len(req.events) : req.events[i][1] # "search_error"
    /\ (req.retrieval_error \/ req.oracle_reply = "error") => Analysed
    /\ (Decided /\ req.doc_results = <<>>) =>
          req.search_source \in {"web", "not_in_doc"}
    /\ (Decided /\ req.retrieval_error) =>
          /\ req.doc_results = <<>>
          /\ req.search_source \in {"web", "not_in_doc"}
    /\ (req.pc \in {"searched", "done"} /\ req.doc_results = <<>>) =>
          req.calls.web_search = 1
    /\ req.pc \in {"done", "error"} =>
          /\ EndEvents(req.events) = {Len(req.events)}
          /\ req.pc = "done" => req.prompt # None
    /\ req.pc \notin {"done", "error"} => EndEvents(req.events) = {}

\* C24: a request in which the retrieval (embedder, index, reranker), the
\* gate or the oracle fails is not ended by search_error; once its analysis
\* has returned, a routing decision is made, one that searches the web when
\* the documents gave no evidence, the generation is reached, and the
\* stream ends with one end event, its last event.
C24_RetrievalFailureDegrades ==
    /\ []RetrievalFailureDegrades
    /\ (req.pc \in {"oracle", "decided", "searched"}) ~> (req.pc = "done")

\* the retrieval of a doc_qa request failed while the session had its
\* chunk in the index; the request ended with web results and one end event
C24_Witness ==
    /\ req.pc = "done" /\ req.retrieval_error
    /\ req.calls.search = 1
    /\ ChunksOfSession(collection, req.session_id) # <<>>
    /\ req.relevance_eval.reason = "No relevant chunks found"
    /\ req.search_source = "not_in_doc" /\ req.calls.web_search = 1
    /\ req.events = << <<"search_start", "not_in_doc">>, <<"end", None>> >>

----------------------------------------------------------------------------
(* Properties of deletion *)

Lists(reg, s, doc) ==
    HasEntry(reg, s) /\ \E i \in 1..Len(reg[s]) : reg[s][i] = doc

\* C25: when delete_document(document_id, session_id) has returned,
\* whatever session_id it was given, the collection holds no chunk of the
\* document and no session's entry lists the document, in memory or in the
\* file: no preview returns a chunk of it and has_documents does not
\* count it.
C25_DeleteCascadesByDocumentId ==
    Returned("delete_document") =>
        LET doc == req.document_id
        IN  /\ \A i \in 1..Len(collection) : collection[i].document_id # doc
            /\ \A s \in Sessions :
                  /\ ~Lists(session_documents, s, doc)
                  /\ ~Lists(session_file, s, doc)
                  /\ LET preview == get_document_preview(
                                       collection, s, PREVIEW_MAX_CHUNKS, FALSE)
                     IN  \A i \in 1..Len(preview) :
                            preview[i].document_id # doc
                  /\ SessionHasDocs(load_sessions(session_file, "loaded"), s)
                        => \E i \in 1..Len(session_file[s]) :
                              session_file[s][i] # doc

----------------------------------------------------------------------------
(* Properties of the flags and of the evidence of a request *)

\* the sources announced in the search_start events of the request
Announced ==
    { req.events[i][2] :
         i \in { j \in 1..Len(req.events) : req.events[j][1] = "search_start" } }

\* C26: in a decided request doc_not_in_doc is true exactly when the
\* source is not_in_doc, rag_fallback_used is true only when the source is
\* web and the effective intent doc_summary, and the two are never both
\* true; the request announces one source in search_start, keeps it until
\* the end, and generates from the prompt of that source.
C26_FlagsAgreeWithSource ==
    /\ [] ( /\ Decided =>
                /\ req.doc_not_in_doc <=> req.search_source = "not_in_doc"
                /\ req.rag_fallback_used =>
                      /\ req.search_source = "web"
                      /\ req.query_intent = "doc_summary"
                /\ ~(req.rag_fallback_used /\ req.doc_not_in_doc)
                /\ Announced = {req.search_source}
            /\ ~Decided => /\ Announced = {}
                           /\ req.search_source = None
                           /\ ~req.rag_fallback_used
                           /\ ~req.doc_not_in_doc
            /\ req.pc = "done" =>
                  \/ req.search_source = "documents"
                        /\ req.prompt \in {"summary", "doc"}
                  \/ req.search_source \in {"web", "hybrid", "not_in_doc"}
                        /\ req.prompt = req.search_source )
    /\ [][ (Decided /\ Decided') =>
              /\ req'.search_source = req.search_source
              /\ req'.doc_not_in_doc = req.doc_not_in_doc
              /\ req'.rag_fallback_used = req.rag_fallback_used
              /\ req'.query_intent = req.query_intent ]_vars

\* a summary request found no chunk: rag_fallback_used, source web, and
\* the web prompt
C26_Witness ==
    /\ req.pc = "done" /\ req.rag_fallback_used /\ ~req.doc_not_in_doc
    /\ req.query_intent = "doc_summary" /\ req.search_source = "web"
    /\ req.prompt = "web"
    /\ req.events = << <<"search_start", "web">>, <<"end", None>> >>

\* C27: the document evidence of a decided request is non-empty when the
\* source is documents or hybrid and empty when it is web or not_in_doc; a
\* gate result with should_use_documents true carries a non-empty list of
\* chunks, one with should_use_documents false carries none.
C27_EvidenceMatchesSource ==
    /\ Decided =>
          /\ req.search_source \in {"documents", "hybrid"} =>
                req.doc_results # <<>>
          /\ req.search_source \in {"web", "not_in_doc"} =>
                req.doc_results = <<>>
    /\ GateRan =>
          /\ req.relevance_eval.should_use_documents =>
                /\ req.relevance_eval.relevant_chunks # <<>>
                /\ Decided /\ req.pdf_has_answer =>
                      req.doc_results = req.relevance_eval.relevant_chunks
          /\ ~req.relevance_eval.should_use_documents =>
                req.relevance_eval.relevant_chunks = <<>>

\* the search found a chunk that the gate rejected: the gate result
\* carries no chunk and the request, decided as not_in_doc, has no document
\* evidence
C27_Witness ==
    /\ req.pc = "done" /\ SearchFound
    /\ req.relevance_eval.reason = "low_reranker_score"
    /\ req.relevance_eval.relevant_chunks = <<>>
    /\ req.search_source = "not_in_doc" /\ req.doc_results = <<>>

----------------------------------------------------------------------------
(* Two DocumentStore instances on one registry file, as main.py creates    *)
(* them: the private store of document_processor serves the uploads, the   *)
(* module's document_store serves the chat and the deletions. Here         *)
(* session_documents holds the registry of either instance, and req the    *)
(* last call with the documents uploaded and deleted so far. Every read    *)
(* and write of the file succeeds.                                         *)

\* both instances have loaded the file, which does not exist yet
TwoStoreInit ==
    /\ session_documents =
          [processor |-> EmptyRegistry, store |-> EmptyRegistry]
    /\ session_file = EmptyRegistry
    /\ collection = <<>>
    /\ uploads = 0
    /\ req = [op |-> None, session_id |-> None, document_id |-> None,
              completed |-> {}, deleted |-> {}]

\* POST /documents/upload: process_upload stores the chunks and registers
\* the document in the processor's store, which saves its registry
ProcessorUpload(sid) ==
    /\ uploads < MaxRegistered
    /\ LET doc == DocIdOf(uploads + 1)
           reg == AppendDocument(session_documents.processor, sid, doc)
       IN  /\ collection' = collection \o NewChunks(doc, sid, 1)
           /\ session_documents' =
                 [session_documents EXCEPT !.processor = reg]
           /\ session_file' = save_sessions(reg, session_file, "saved")
           /\ req' = [req EXCEPT !.op = "process_upload",
                                 !.session_id = sid, !.document_id = doc,
                                 !.completed = @ \cup {doc}]
    /\ uploads' = uploads + 1

\* has_documents or evaluate_document_relevance on document_store: the
\* registry is reloaded from the file
StoreReloads(sid) ==
    /\ session_documents' =
          [session_documents EXCEPT
              !.store = load_sessions(session_file, "loaded")]
    /\ req' = [req EXCEPT !.op = "reload_sessions", !.session_id = sid,
                          !.document_id = None]
    /\ UNCHANGED <<session_file, collection, uploads>>

\* DELETE /documents/{document_id}: document_store filters its registry
\* and saves it
StoreDelete(doc, sid) ==
    /\ collection' = SelectSeq(collection, LAMBDA c : c.document_id # doc)
    /\ IF HasEntry(session_documents.store, sid)
       THEN LET reg == RemoveDocument(session_documents.store, sid, doc)
            IN  /\ session_documents' =
                      [session_documents EXCEPT !.store = reg]
                /\ session_file' = save_sessions(reg, session_file, "saved")
       ELSE UNCHANGED <<session_documents, session_file>>
    /\ req' = [req EXCEPT !.op = "delete_document", !.session_id = sid,
                          !.document_id = doc, !.deleted = @ \cup {doc}]
    /\ UNCHANGED uploads

TwoStoreNext ==
    \/ \E sid \in Sessions : ProcessorUpload(sid)
    \/ \E sid \in Sessions : StoreReloads(sid)
    \/ \E doc \in UploadedDocs, sid \in Sessions : StoreDelete(doc, sid)

TwoStoreSpec == TwoStoreInit /\ [][TwoStoreNext]_vars

\* C28: with the two instances on one file, the file lists every document
\* whose upload completed and for which no delete_document was called,
\* after every interleaving of uploads through the one instance and
\* has_documents and delete calls through the other.
C28_NoRegistrationLostToStaleWrite ==
    \A doc \in req.completed \ req.deleted :
        \E s \in Sessions : Lists(session_file, s, doc)

----------------------------------------------------------------------------
(* Properties of the effective intent *)

SummaryOverrideApplies ==
    req.session_has_docs /\ MatchesSummaryPhrase(req.message)

\* C29: the intent that routes a request is the query_intent of the
\* analysis, except that with documents in the session and a summary
\* phrase in the message it is doc_summary, whatever the analysis said
\* (general_web and doc_qa included), and such a request calls neither the
\* gate, the search nor the oracle; without documents the intent of the
\* analysis stands and the decision is web.
C29_SummaryPhraseOverridesIntent ==
    Analysed =>
        /\ req.query_intent =
              (IF SummaryOverrideApplies THEN "doc_summary"
               ELSE req.analysis_intent)
        /\ SummaryOverrideApplies =>
              /\ req.calls.gate = 0 /\ req.calls.search = 0
              /\ req.calls.oracle = 0 /\ req.pc # "oracle"
              /\ req.calls.preview = 1
        /\ ~req.session_has_docs =>
              /\ req.query_intent = req.analysis_intent
              /\ req.query_intent # "doc_summary"
              /\ Decided /\ req.search_source = "web"

\* the model classified "Summarize tax" as general_web; with a document in
\* the session the request was routed as doc_summary and answered from
\* the preview
C29_Witness ==
    /\ Decided /\ req.session_has_docs
    /\ req.message = <<"Summarize", "tax">>
    /\ req.analysis_path = "llm" /\ req.analysis_intent = "general_web"
    /\ req.query_intent = "doc_summary"
    /\ req.calls.gate = 0 /\ req.calls.preview = 1
    /\ req.search_source = "documents"

----------------------------------------------------------------------------
(* The chat handler interleaved with uploads, without deletions *)

IngestNext ==
    \/ UploadFails
    \/ \E sid \in Sessions, n \in 1..MaxChunks : UploadCompletes(sid, n)
    \/ \E sid \in ChatSessions, message \in Messages :
          ChatStart(sid, message)
    \/ AnalysisRaises
    \/ \E a \in Analyses(req.message, req.session_has_docs),
          index_fails \in BOOLEAN,
          stage1 \in Stage1Orders(collection, req.session_id) :
          \E scores \in [1..Len(stage1) -> Scores] :
             AnalysisReturns(a, index_fails, stage1, scores)
    \/ \E reply \in OracleReplies : OracleReturns(reply)
    \/ Execute
    \/ Generate
    \/ ChatEnd

IngestSpec == Init /\ [][IngestNext]_vars

\* every document that a registry lists for a session has a chunk of that
\* session in the collection
RegisteredHaveChunks ==
    \A s \in Sessions, doc \in DocIds :
        (Lists(session_documents, s, doc) \/ Lists(session_file, s, doc)) =>
            \E i \in 1..Len(collection) :
                /\ collection[i].document_id = doc
                /\ collection[i].session_id = s

\* a request that saw has_documents true has fetched the preview
PreviewFetched ==
    Analysed /\ req.session_has_docs /\ req.calls.preview = 1

====
